---- MODULE Spec2Model ----
(***************************************************************************)
(* TilePrefetcher (src/prefetch.js, with the sourceIds option of the       *)
(* variant in src/unnamed/part_000): tile-set computation, template        *)
(* resolution and debounced, in-flight-deduplicated prefetch cycles.       *)
(*                                                                         *)
(* JavaScript runs each task to completion: an action below is one task   *)
(* (an event handler, a timer callback, a settled network promise) with    *)
(* every promise continuation it makes ready, up to the next await that    *)
(* really suspends (a remote lookup).                                      *)
(***************************************************************************)
EXTENDS Integers, Sequences, FiniteSets, Bags, TLC

\* ---------------------------------------------------------------- bounds
MaxZ == 3              \* zooms 0..MaxZ drawn for the tile-math specification
MaxSpan == 1           \* a drawn range spans at most MaxSpan+1 columns / rows
MaxRing == 2           \* ring counts 0..MaxRing drawn for the tile math
DebounceTicks == 1     \* opts.debounceMs, in clock ticks
MaxCap == 1            \* opts.maxRequestsPerMove is drawn from 0..MaxCap
MaxRuns == 2           \* _resolveTemplates runs suspended at the same time
MaxCount == 2          \* the lookup and burst counters saturate here
MaxMoves == 1          \* moveend signals in one behaviour
MaxStyleEvents == 1    \* styledata signals in one behaviour
MaxLevels == 2         \* opts.zoomOutLevels is drawn from 0..MaxLevels for the tile math

Max(a, b) == IF a >= b THEN a ELSE b
Min(a, b) == IF a <= b THEN a ELSE b

\* JavaScript's % : the result has the sign of the dividend.
JsRem(a, b) == IF a >= 0 THEN a % b ELSE -((-a) % b)

\* Math.floor(a / b) for b > 0
FloorDiv(a, b) == a \div b

\* ------------------------------------------------------------- tile math
\* const t = 2 ** z, wrapX = (x)=>((x%t)+t)%t
wrapX(x, z) == JsRem(JsRem(x, 2^z) + 2^z, 2^z)

\* clampY=(y)=>Math.max(0,Math.min(t-1,y))
clampY(y, z) == Max(0, Min(2^z - 1, y))

\* The x-outer, y-inner double loop over [x0..x1] x [y0..y1], as the sequence
\* of raw indices it visits.
Grid(x0, x1, y0, y1) ==
  LET W == x1 - x0 + 1
      H == y1 - y0 + 1
  IN  IF W <= 0 \/ H <= 0 THEN << >>
      ELSE [i \in 1..(W * H) |-> [x |-> x0 + ((i - 1) \div H), y |-> y0 + ((i - 1) % H)]]

MapSeq(s, F(_)) == [i \in 1..Len(s) |-> F(s[i])]
Range(s) == {s[i] : i \in 1..Len(s)}

\* _collectNeighborsTiles with its ring taken as the border at distance
\* exactly n (a plausible slip: the ring, not the expanded rectangle).
BorderOnlyNeighborsTiles(z, minX, minY, maxX, maxY, n) ==
  LET onBorder(p) == p.x = minX - n \/ p.x = maxX + n \/ p.y = minY - n \/ p.y = maxY + n
      inside(p) == p.x >= minX /\ p.x <= maxX /\ p.y >= minY /\ p.y <= maxY
      norm(p) == [x |-> wrapX(p.x, z), y |-> clampY(p.y, z)]
  IN  MapSeq(SelectSeq(Grid(minX - n, maxX + n, minY - n, maxY + n),
                       LAMBDA p : onBorder(p) /\ ~inside(p)), norm)

\* _collectNeighborsTiles(z, minX, minY, maxX, maxY, n)
CollectNeighborsTiles(z, minX, minY, maxX, maxY, n) ==
  LET inside(p) == p.x >= minX /\ p.x <= maxX /\ p.y >= minY /\ p.y <= maxY
      norm(p) == [x |-> wrapX(p.x, z), y |-> clampY(p.y, z)]
  IN  MapSeq(SelectSeq(Grid(minX - n, maxX + n, minY - n, maxY + n),
                       LAMBDA p : ~inside(p)), norm)

\* The neighbor part of _prefetchNow: the tiles whose keys `${z}/${x}/${y}`
\* go into neighborSet, in insertion order (empty unless opts.neighbors > 0).
NeighborTiles(z, minX, minY, maxX, maxY, n) ==
  IF n > 0 THEN CollectNeighborsTiles(z, minX, minY, maxX, maxY, n) ELSE << >>

\* the tilesAtZ loop pushing the raw indices, neither wrapped nor clamped
TilesAtZRaw(z, minX, maxX, minY, maxY) ==
  MapSeq(Grid(minX, maxX, minY, maxY), LAMBDA p : [x |-> p.x, y |-> p.y, z |-> z])

\* the tilesAtZ loop of _visibleTileRange
TilesAtZ(z, minX, maxX, minY, maxY) ==
  MapSeq(Grid(minX, maxX, minY, maxY),
         LAMBDA p : [x |-> wrapX(p.x, z), y |-> clampY(p.y, z), z |-> z])

\* ------------------------------------------------------------- sequences
\* The elements of s in order, each kept at its first occurrence: the
\* iteration order of a JavaScript Set filled from s.
Dedup(s) ==
  LET keep == SelectSeq([i \in 1..Len(s) |-> i],
                        LAMBDA i : \A j \in 1..(i - 1) : s[j] # s[i])
  IN  [k \in 1..Len(keep) |-> s[keep[k]]]

\* for (a of as) for (b of bs) F(a, b), as the sequence of the results
Cross(as, bs, F(_, _)) ==
  IF Len(as) = 0 \/ Len(bs) = 0 THEN << >>
  ELSE [i \in 1..(Len(as) * Len(bs)) |->
          F(as[((i - 1) \div Len(bs)) + 1], bs[((i - 1) % Len(bs)) + 1])]

RECURSIVE Flatten(_)
Flatten(ss) == IF Len(ss) = 0 THEN << >> ELSE Head(ss) \o Flatten(Tail(ss))

\* ------------------------------------------------- templates and sources
\* A tile URL template: whether the entry is a string at all, which of the
\* placeholders {z}, {x}, {y} it contains, and its file extension.
Template(id, str, z, x, y, ext) ==
  [id |-> id, str |-> str, z |-> z, x |-> x, y |-> y, ext |-> ext]

TA == Template("a", TRUE, TRUE, TRUE, TRUE, "pbf")    \* "https://a/{z}/{x}/{y}.pbf"
TB == Template("b", TRUE, TRUE, TRUE, TRUE, "png")    \* "https://b/{z}/{x}/{y}.png"
TC == Template("c", TRUE, TRUE, TRUE, TRUE, "pbf")    \* "https://c/{z}/{x}/{y}.pbf"
TNum == Template("7", FALSE, FALSE, FALSE, FALSE, "") \* the number 7 in a tiles array
TNoY == Template("d", TRUE, TRUE, TRUE, FALSE, "pbf") \* "https://d/{z}/{x}.pbf"
TNoZ == Template("e", TRUE, FALSE, TRUE, TRUE, "png") \* "https://e/{x}/{y}.png"
TJson == Template("f", TRUE, TRUE, TRUE, TRUE, "json") \* "https://f/{z}/{x}/{y}.json"

\* One entry of style.sources: tiles is the explicit template list (empty
\* when the source has none), url the TileJSON descriptor URL ("" when none).
Source(id, tiles, url) == [id |-> id, tiles |-> tiles, url |-> url]

\* The styles the map takes, each as Object.entries(style.sources).
Styles ==
  << << Source("s1", << >>, "u1"), Source("s2", <<TA, TNum>>, "") >>,
     << Source("s2", <<TA, TNum>>, ""), Source("s1", << >>, "u2") >>,
     << Source("s1", << >>, "u1"), Source("s3", << >>, "u2"), Source("s2", <<TA, TNum>>, "") >>,
     << Source("s3", << >>, "u2"), Source("s2", <<TNum, TA>>, ""), Source("s1", << >>, "u1") >>,
     << Source("s2", <<TA>>, ""), Source("s3", << >>, "u2"), Source("s1", << >>, "u1") >>,
     << Source("s1", << >>, "u2") >> >>

\* The styles the map goes through while the prefetcher is live: style 2 is
\* style 1 with the descriptor URL of s1 replaced and the sources reordered.
LiveStyles == {1, 2}

\* The styles the map may have when the prefetcher is constructed: style 6
\* has one source, whose templates come from a remote lookup only, and the
\* styledata signals of a map that starts with it leave its sources alone.
InitStyles == {1, 6}
StylesAfter(s) == IF s \in LiveStyles THEN LiveStyles ELSE {s}

SourceIds == {"s1", "s2", "s3"}

\* What a TileJSON document at a descriptor URL lists as tiles.
RemoteTiles(u) == IF u = "u1" THEN <<TB>> ELSE <<TC>>

\* How a remote lookup settles: it throws (network error, non-ok status, bad
\* JSON), or returns a document whose tiles is an array, or is no array.
LookupOutcomes == {"fail", "tiles", "notArray"}

\* --------------------------------------------------------------- viewport
MercUnits == 8

\* A viewport: zoom in half levels, west/east in degrees, north/south as the
\* Web-Mercator ordinate (1 - ln(tan r + sec r)/pi)/2 of the latitude, in
\* 1/MercUnits.
Viewport(zoom2, west, east, north, south) ==
  [zoom2 |-> zoom2, west |-> west, east |-> east, north |-> north, south |-> south]

Viewports ==
  << Viewport(2, -180, -90, 0, 3),      \* zoom 1.0: tile 1/0/0
     Viewport(5, 0, 90, 2, 3) >>        \* zoom 2.5: tiles 2/2/1 and 2/3/1

\* _lon2tile(lon,z), floored
FloorLon2tile(lon, z) == FloorDiv((lon + 180) * 2^z, 360)

\* _lat2tile(lat,z), floored
FloorLat2tile(merc, z) == FloorDiv(merc * 2^z, MercUnits)

\* _visibleTileRange(bounds, z)
VisibleTileRange(b, z) ==
  LET vxMinX == FloorLon2tile(b.west, z)
      vxMaxX == FloorLon2tile(b.east, z)
      vyMinY == FloorLat2tile(b.north, z)
      vyMaxY == FloorLat2tile(b.south, z)
  IN  [minX |-> vxMinX, maxX |-> vxMaxX, minY |-> vyMinY, maxY |-> vyMaxY,
       tilesAtZ |-> TilesAtZ(z, vxMinX, vxMaxX, vyMinY, vyMaxY)]

MaxTileZoom == 22

\* the zoom floored and kept non-negative, without the upper clamp
CycleZoomNoCap(zoom2) == Max(0, FloorDiv(zoom2, 2))

\* Math.max(0, Math.min(22, Math.floor(this.map.getZoom())))
CycleZoom(zoom2) == Max(0, Min(MaxTileZoom, FloorDiv(zoom2, 2)))

\* ------------------------------------------------------------------ URLs
NoURL == [t |-> "", z |-> -1, x |-> -1, y |-> -1, ext |-> ""]

\* _tileURL replacing whatever placeholders the template has
TileURLLenient(tmpl, z, x, y) ==
  [t |-> tmpl.id, z |-> IF tmpl.z THEN z ELSE -1, x |-> IF tmpl.x THEN x ELSE -1,
   y |-> IF tmpl.y THEN y ELSE -1, ext |-> tmpl.ext]

\* _tileURL(tmpl, z, x, y): null unless the template has all three
\* placeholders, else the template with each one's first occurrence replaced.
TileURL(tmpl, z, x, y) ==
  IF ~tmpl.z \/ ~tmpl.x \/ ~tmpl.y THEN NoURL
  ELSE [t |-> tmpl.id, z |-> z, x |-> x, y |-> y, ext |-> tmpl.ext]

\* opts.shouldPrefetch: /\.(pbf|mvt|png|jpg|jpeg)(\?|$)/.test(url)
ShouldPrefetch(u) == u.ext \in {"pbf", "mvt", "png", "jpg", "jpeg"}

\* px = Math.round(px/2), k times: halving that rounds to the nearest
RECURSIVE HalveRound(_, _)
HalveRound(v, k) == IF k = 0 THEN v ELSE HalveRound(FloorDiv(v + 1, 2), k - 1)

\* px = Math.floor(px/2), k times
RECURSIVE Halve(_, _)
Halve(v, k) == IF k = 0 THEN v ELSE Halve(FloorDiv(v, 2), k - 1)

\* The body of the depth loop for one d: the keys of tmp, in insertion order.
ParentTilesAt(tilesAtZ, z, d) ==
  Dedup(MapSeq(tilesAtZ, LAMBDA p : [z |-> z - d, x |-> Halve(p.x, d), y |-> Halve(p.y, d)]))

\* the depth loop without its break at pz < 0
RECURSIVE ParentLoopNoBreak(_, _, _, _)
ParentLoopNoBreak(tilesAtZ, z, d, levels) ==
  IF d > levels THEN << >>
  ELSE <<ParentTilesAt(tilesAtZ, z, d)>> \o ParentLoopNoBreak(tilesAtZ, z, d + 1, levels)

\* for (let d = 1; d <= levels; d++) { const pz = z - d; if (pz < 0) break; ... }
RECURSIVE ParentLoop(_, _, _, _)
ParentLoop(tilesAtZ, z, d, levels) ==
  IF d > levels THEN << >>
  ELSE IF z - d < 0 THEN << >>
  ELSE <<ParentTilesAt(tilesAtZ, z, d)>> \o ParentLoop(tilesAtZ, z, d + 1, levels)

\* The parent part of _prefetchNow: the tiles whose keys go into parentSet, in
\* insertion order; levels = Math.max(0, this.opts.zoomOutLevels | 0).
ParentTiles(tilesAtZ, z, zoomOutLevels) ==
  Flatten(ParentLoop(tilesAtZ, z, 1, Max(0, zoomOutLevels)))

\* neighborSet.add(`${z}/${x}/${y}`): the neighbor tiles with their zoom
Keyed(tiles, z) == MapSeq(tiles, LAMBDA p : [z |-> z, x |-> p.x, y |-> p.y])

\* The urls Set of _prefetchNow in insertion order: for each neighbor tile and
\* then each parent tile, for each template, the URL unless _tileURL gave null.
CycleURLs(ntiles, ptiles, tmpls) ==
  LET url(p, tmpl) == TileURL(tmpl, p.z, p.x, p.y)
  IN  Dedup(SelectSeq(Cross(ntiles, tmpls, url) \o Cross(ptiles, tmpls, url),
                      LAMBDA u : u # NoURL))

\* ------------------------------------------------------ the prefetcher
\* The handlers below are state transformers over a record S of the mutable
\* state: the TilePrefetcher's fields, the browser's timer table, the fetches
\* and lookups under way, and the history counters the properties read.
\*   moveendOn, styledataOn  the handlers attached to the map
\*   bound                   _onStyleDataBound is defined (_bind has run)
\*   timers                  pending setTimeout callbacks [id, left]
\*   runs                    _resolveTemplates runs suspended in a lookup
\*   outstanding             bag of tile URLs whose fetch has not settled
\*   fillVis                 the visibility set on the two fill layers
\*   sigView                 the viewport at the last _onMoveEnd call
\*   styleRead               the sources the last _resolveTemplates call read

\* The id setTimeout returns: one no pending timer has and that the stale id
\* in _debounceTimer does not alias.
NewTimerId(S) ==
  LET used == {t.id : t \in S.timers} \cup {S.debounceTimer}
  IN  CHOOSE i \in 1..(Cardinality(used) + 1) :
        i \notin used /\ \A j \in 1..(i - 1) : j \in used

\* _onMoveEnd without its clearTimeout
OnMoveEndNoClear(S) ==
  LET id == NewTimerId(S)
  IN  [S EXCEPT !.timers = @ \cup {[id |-> id, left |-> DebounceTicks]},
                !.debounceTimer = id,
                !.owed = IF S.timers = {} THEN @ + 1 ELSE @,
                !.burst = IF S.timers = {} THEN 1 ELSE Min(@ + 1, MaxCount),
                !.sinceSignal = 0]

\* _onMoveEnd(): clearTimeout(this._debounceTimer); this._debounceTimer = setTimeout(...)
OnMoveEnd(S) ==
  LET id == NewTimerId(S)
      kept == {t \in S.timers : t.id # S.debounceTimer}
  IN  [S EXCEPT !.timers = kept \cup {[id |-> id, left |-> DebounceTicks]},
                !.debounceTimer = id,
                !.owed = IF S.timers = {} THEN @ + 1 ELSE @,
                !.burst = IF S.timers = {} THEN 1 ELSE Min(@ + 1, MaxCount),
                !.sinceSignal = 0]

\* [...urls].filter(shouldPrefetch) without the slice
CycleListUncapped(urls, o) == SelectSeq(urls, ShouldPrefetch)

\* [...urls].filter(this.opts.shouldPrefetch).slice(0, this.opts.maxRequestsPerMove)
CycleList(urls, o) ==
  LET f == SelectSeq(urls, ShouldPrefetch)
  IN  SubSeq(f, 1, Min(o.maxRequestsPerMove, Len(f)))

\* the fetch loop starting each cycle with a fresh in-flight set
IssueFetchesReset(S, list) ==
  [S EXCEPT !.inflight = Range(list),
            !.outstanding = @ (+) SetToBag(Range(list))]

\* the fetch loop without its in-flight check
IssueFetchesUnchecked(S, list) ==
  [S EXCEPT !.inflight = @ \cup Range(list),
            !.outstanding = @ (+) SetToBag(Range(list))]

\* for (const u of list) { if (this._inflight.has(u)) continue;
\*   this._inflight.add(u); fetch(u)... }
IssueFetches(S, list) ==
  LET issued == SelectSeq(list, LAMBDA u : u \notin S.inflight)
  IN  [S EXCEPT !.inflight = @ \cup Range(issued),
                !.outstanding = @ (+) SetToBag(Range(issued))]

\* the neighbor and parent sets a cycle shows for viewport v
OverlayFor(v, o) ==
  LET z == CycleZoom(v.zoom2)
      r == VisibleTileRange(v, z)
  IN  [neighbors |-> Dedup(Keyed(NeighborTiles(z, r.minX, r.minY, r.maxX, r.maxY,
                                               o.neighbors), z)),
       parents |-> Dedup(ParentTiles(r.tilesAtZ, z, o.zoomOutLevels))]

\* _prefetchNow dropping the in-flight URLs from the list before the slice
PrefetchBodySkipThenCap(S, v, o) ==
  LET z == CycleZoom(v.zoom2)
      r == VisibleTileRange(v, z)
      ntiles == Keyed(NeighborTiles(z, r.minX, r.minY, r.maxX, r.maxY, o.neighbors), z)
      ptiles == ParentTiles(r.tilesAtZ, z, o.zoomOutLevels)
      urls == CycleURLs(ntiles, ptiles, S.templates)
      shown == [S EXCEPT !.overlay = [neighbors |-> Dedup(ntiles), parents |-> Dedup(ptiles)]]
  IN  IssueFetches(shown, CycleList(SelectSeq(urls, LAMBDA u : u \notin S.inflight), o))

\* _prefetchNow from "const z = ..." on: the tile sets, the URL set, the debug
\* overlay and the fetches, for viewport v and options o.
PrefetchBody(S, v, o) ==
  LET z == CycleZoom(v.zoom2)
      r == VisibleTileRange(v, z)
      ntiles == Keyed(NeighborTiles(z, r.minX, r.minY, r.maxX, r.maxY, o.neighbors), z)
      ptiles == ParentTiles(r.tilesAtZ, z, o.zoomOutLevels)
      urls == CycleURLs(ntiles, ptiles, S.templates)
      shown == [S EXCEPT !.overlay = [neighbors |-> Dedup(ntiles), parents |-> Dedup(ptiles)]]
  IN  IssueFetches(shown, CycleList(urls, o))

\* The for loop of _resolveTemplates from entry i on, up to the first entry
\* that needs a remote lookup (pos = that entry) or to the end (pos > Len).
RECURSIVE Advance(_, _, _, _, _)
Advance(srcs, i, acc, cache, wanted) ==
  IF i > Len(srcs) THEN [pos |-> i, acc |-> acc]
  ELSE LET src == srcs[i]
       IN  IF wanted # {} /\ src.id \notin wanted
             THEN Advance(srcs, i + 1, acc, cache, wanted)
           ELSE IF Len(src.tiles) > 0
             THEN Advance(srcs, i + 1, acc \o src.tiles, cache, wanted)
           ELSE IF src.url # ""
             THEN IF cache[src.id].set
                    THEN Advance(srcs, i + 1, acc \o cache[src.id].tiles, cache, wanted)
                    ELSE [pos |-> i, acc |-> acc]
           ELSE Advance(srcs, i + 1, acc, cache, wanted)

Bump(n) == Min(n + 1, MaxCount)

\* Continue with the awaiting cycle going on without re-checking the list
ContinueNoRecheck(S, srcs, i, acc, then, sig, v, o) ==
  LET a == Advance(srcs, i, acc, S.tilejsonCache, o.sourceIds)
  IN  IF a.pos <= Len(srcs)
        THEN [S EXCEPT !.runs = Append(@, [srcs |-> srcs, pos |-> a.pos, acc |-> a.acc,
                                          then |-> then, sig |-> sig]),
                       !.lookups[srcs[a.pos].id] = Bump(@)]
      ELSE LET S1 == [S EXCEPT !.templates = SelectSeq(a.acc, LAMBDA u : u.str)]
           IN  CASE then = "bind" -> [OnMoveEnd(S1) EXCEPT !.sigView = v]
                 [] then = "cycle" -> PrefetchBody(S1, v, o)
                 [] OTHER -> S1

\* A _resolveTemplates run (srcs: the entries it read from the style, i: the
\* entry to go on from, acc: its local templates, then: what awaits it, sig:
\* the viewport at the last signal before an awaiting cycle started) runs
\* until it suspends in a lookup or ends; at its end it writes _templates
\* and its awaiter goes on: the initial bind calls _onMoveEnd, a cycle
\* re-checks the template list and runs.
Continue(S, srcs, i, acc, then, sig, v, o) ==
  LET a == Advance(srcs, i, acc, S.tilejsonCache, o.sourceIds)
  IN  IF a.pos <= Len(srcs)
        THEN [S EXCEPT !.runs = Append(@, [srcs |-> srcs, pos |-> a.pos, acc |-> a.acc,
                                          then |-> then, sig |-> sig]),
                       !.lookups[srcs[a.pos].id] = Bump(@)]
      ELSE LET S1 == [S EXCEPT !.templates = SelectSeq(a.acc, LAMBDA u : u.str)]
           IN  CASE then = "bind" -> [OnMoveEnd(S1) EXCEPT !.sigView = v]
                 [] then = "cycle" -> IF Len(S1.templates) = 0 THEN S1
                                      ELSE PrefetchBody(S1, v, o)
                 [] OTHER -> S1

\* _resolveTemplates(), called with the style's sources srcs
ResolveTemplates(S, srcs, then, v, o) ==
  Continue([S EXCEPT !.styleRead = srcs], srcs, 1, << >>, then, S.sigView, v, o)

\* _prefetchNow()
PrefetchNow(S, srcs, v, o) ==
  IF Len(S.templates) = 0 THEN ResolveTemplates(S, srcs, "cycle", v, o)
  ELSE PrefetchBody(S, v, o)

\* _applyFillVisibility(): setLayoutProperty on the fill layers that exist
ApplyFillVisibility(S) ==
  [S EXCEPT !.fillVis = IF @ = "absent" THEN @
                        ELSE IF S.debugFill THEN "visible" ELSE "none"]

\* _ensureDebugLayers(): the four layers exist afterwards, the fill layers
\* get their visibility, and at most one layer is the topmost, so
\* toTopIfNeeded moves a layer, sets the guard and asks for an animation
\* frame to reset it.
EnsureDebugLayers(S) ==
  [ApplyFillVisibility([S EXCEPT !.fillVis = IF @ = "absent" THEN "visible" ELSE @])
     EXCEPT !.styledataGuard = TRUE, !.rafPending = TRUE]

\* setFillEnabled going through _ensureDebugLayers instead of
\* _applyFillVisibility
SetFillEnabledEnsure(S, enabled) ==
  EnsureDebugLayers([S EXCEPT !.debugFill = enabled])

\* setFillEnabled(enabled)
SetFillEnabled(S, enabled) == ApplyFillVisibility([S EXCEPT !.debugFill = enabled])

\* _bind()
Bind(S, srcs, v, o) ==
  LET S1 == [EnsureDebugLayers(S) EXCEPT !.bound = TRUE, !.styledataOn = TRUE,
                                         !.moveendOn = TRUE]
  IN  ResolveTemplates(S1, srcs, "bind", v, o)

\* _onStyleData() handing its resolution's end to _onMoveEnd, as _bind does
OnStyleDataThenMove(S, srcs, v, o) ==
  IF S.styledataGuard THEN S
  ELSE LET S1 == EnsureDebugLayers([S EXCEPT !.styledataGuard = TRUE])
       IN  [ResolveTemplates(S1, srcs, "bind", v, o) EXCEPT !.rafPending = TRUE]

\* _onStyleData()
OnStyleData(S, srcs, v, o) ==
  IF S.styledataGuard THEN S
  ELSE LET S1 == EnsureDebugLayers([S EXCEPT !.styledataGuard = TRUE])
       IN  [ResolveTemplates(S1, srcs, "none", v, o) EXCEPT !.rafPending = TRUE]

NoCache == [id \in SourceIds |-> [set |-> FALSE, tiles |-> << >>]]

\* destroy()
Destroy(S) ==
  [S EXCEPT !.moveendOn = FALSE,
            !.styledataOn = IF S.bound THEN FALSE ELSE @,
            !.inflight = {},
            !.tilejsonCache = NoCache,
            !.templates = << >>,
            !.lookups = [id \in SourceIds |-> 0]]

\* SettleLookup without the try/catch around the lookup: a failure rejects the
\* whole run, which writes nothing and wakes nobody.
SettleLookupAbort(S, k, outcome, v, o) ==
  LET r == S.runs[k]
      src == r.srcs[r.pos]
      t == IF outcome = "tiles" THEN RemoteTiles(src.url) ELSE << >>
      S1 == [S EXCEPT !.runs = SubSeq(@, 1, k - 1) \o SubSeq(@, k + 1, Len(@))]
  IN  IF outcome = "fail" THEN S1
      ELSE Continue([S1 EXCEPT !.tilejsonCache[src.id] = [set |-> TRUE, tiles |-> t]],
                    r.srcs, r.pos + 1, r.acc \o t, r.then, r.sig, v, o)

\* How the lookup of suspended run k settles, and the run going on: on
\* success the tiles array (or [] when tiles is no array) is cached under the
\* source's id and pushed; on failure the catch block only warns.
SettleLookup(S, k, outcome, v, o) ==
  LET r == S.runs[k]
      src == r.srcs[r.pos]
      t == IF outcome = "tiles" THEN RemoteTiles(src.url) ELSE << >>
      S1 == [S EXCEPT !.runs = SubSeq(@, 1, k - 1) \o SubSeq(@, k + 1, Len(@))]
      S2 == IF outcome = "fail" THEN S1
            ELSE [S1 EXCEPT !.tilejsonCache[src.id] = [set |-> TRUE, tiles |-> t]]
      acc == IF outcome = "fail" THEN r.acc ELSE r.acc \o t
  IN  Continue(S2, r.srcs, r.pos + 1, acc, r.then, r.sig, v, o)

\* the fetch settling with the delete on the success path only, the fetch
\* having failed
SettleFetchKeep(S, u) == [S EXCEPT !.outstanding = @ (-) SetToBag({u})]

\* fetch(u).catch(()=>{}).finally(()=>this._inflight.delete(u))
SettleFetch(S, u) ==
  [S EXCEPT !.outstanding = @ (-) SetToBag({u}), !.inflight = @ \ {u}]

\* the timer callback () => this._prefetchNow() of timer t
FireTimer(S, t, srcs, v, o) ==
  PrefetchNow([S EXCEPT !.timers = @ \ {t}, !.owed = @ - 1,
                        !.lastWait = S.sinceSignal, !.cycles = @ + 1], srcs, v, o)

VARIABLES
  style,           \* index in Styles of the map's current style
  view,            \* index in Viewports of the map's current viewport
  opts,            \* this.opts
  moves,           \* moveend signals so far (history)
  styleEvents,     \* styledata signals so far (history)
  loadListener,    \* the constructor's map.on("load", ...) has yet to run
  destroyed,       \* destroy() has been called (history)
  moveendOn, styledataOn, bound,
  styledataGuard,  \* this._styledataGuard
  rafPending,      \* a requestAnimationFrame callback resetting the guard waits
  debounceTimer,   \* this._debounceTimer (0: null)
  timers,
  inflight,        \* this._inflight
  outstanding,
  tilejsonCache,   \* this._tilejsonCache
  templates,       \* this._templates
  runs,
  overlay,         \* the data last set on the two debug sources
  lookups,         \* remote lookups issued per source id since the cache was last cleared (history)
  burst,           \* signals in the current or last burst, up to MaxCount (history)
  owed,            \* bursts of signals begun minus cycles started (history)
  sinceSignal,     \* ticks since the last _onMoveEnd call, up to DebounceTicks (history)
  lastWait,        \* sinceSignal when the last timer callback ran (history)
  cycles,          \* _prefetchNow calls so far (history)
  debugFill,       \* this.opts.debugFill
  fillVis,
  sigView,
  styleRead,
  build,           \* which source file runs: src/prefetch.js or src/unnamed/part_000
  tin, tout,       \* the tile-set builder's inputs and outputs (SpecTiles)
  plan,            \* one _resolveTemplates run followed from call to end (SpecResolve)
  cyc              \* one _prefetchNow call on a drawn viewport (SpecCycle)

svars == <<style, view, opts, moves, styleEvents, loadListener, destroyed, moveendOn, styledataOn, bound,
           styledataGuard, rafPending, debounceTimer, timers, inflight, outstanding,
           tilejsonCache, templates, runs, overlay, lookups, burst, owed,
           sinceSignal, lastWait, cycles, debugFill, fillVis, sigView, styleRead>>
tvars == <<tin, tout, plan, build, cyc>>
vars == <<svars, tvars>>

Cur ==
  [moveendOn |-> moveendOn, styledataOn |-> styledataOn, bound |-> bound,
   styledataGuard |-> styledataGuard, rafPending |-> rafPending,
   debounceTimer |-> debounceTimer, timers |-> timers, inflight |-> inflight,
   outstanding |-> outstanding, tilejsonCache |-> tilejsonCache,
   templates |-> templates, runs |-> runs, overlay |-> overlay,
   lookups |-> lookups, burst |-> burst, owed |-> owed,
   sinceSignal |-> sinceSignal, lastWait |-> lastWait, cycles |-> cycles,
   debugFill |-> debugFill, fillVis |-> fillVis, sigView |-> sigView,
   styleRead |-> styleRead]

Becomes(T) ==
  \E S \in {T} :
    /\ moveendOn' = S.moveendOn /\ styledataOn' = S.styledataOn /\ bound' = S.bound
    /\ styledataGuard' = S.styledataGuard /\ rafPending' = S.rafPending
    /\ debounceTimer' = S.debounceTimer /\ timers' = S.timers
    /\ inflight' = S.inflight /\ outstanding' = S.outstanding
    /\ tilejsonCache' = S.tilejsonCache /\ templates' = S.templates
    /\ runs' = S.runs /\ overlay' = S.overlay
    /\ lookups' = S.lookups /\ burst' = S.burst /\ owed' = S.owed /\ sinceSignal' = S.sinceSignal
    /\ lastWait' = S.lastWait /\ cycles' = S.cycles
    /\ debugFill' = S.debugFill /\ fillVis' = S.fillVis
    /\ sigView' = S.sigView /\ styleRead' = S.styleRead

\* The options of the constructor: the defaults for neighbors and
\* zoomOutLevels, any cap.
DefaultNeighbors == 1
DefaultZoomOutLevels == 1
Options ==
  {[neighbors |-> DefaultNeighbors, zoomOutLevels |-> DefaultZoomOutLevels,
    maxRequestsPerMove |-> m, sourceIds |-> {}] : m \in 0..MaxCap}

NoView == Viewport(0, 0, 0, 0, 0)

NoQuery == [z |-> 0, minX |-> 0, maxX |-> 0, minY |-> 0, maxY |-> 0, n |-> 0,
            levels |-> 0, tmpls |-> << >>]
NoAnswer == [done |-> FALSE, ring |-> << >>, ringNext |-> << >>, tilesAtZ |-> << >>,
             parents |-> << >>, urls |-> << >>]

\* The state the constructor leaves when the style is not loaded yet; with a
\* loaded style it calls _bind at once, which is Load as the first step.
SchedInit ==
  /\ style \in InitStyles /\ view = 1
  /\ moves = 0 /\ styleEvents = 0
  /\ opts \in Options
  /\ loadListener = TRUE /\ destroyed = FALSE
  /\ moveendOn = FALSE /\ styledataOn = FALSE /\ bound = FALSE
  /\ styledataGuard = FALSE /\ rafPending = FALSE
  /\ debounceTimer = 0 /\ timers = {}
  /\ inflight = {} /\ outstanding = EmptyBag
  /\ tilejsonCache = NoCache /\ templates = << >>
  /\ runs = << >>
  /\ overlay = [neighbors |-> << >>, parents |-> << >>]
  /\ lookups = [id \in SourceIds |-> 0]
  /\ burst = 0 /\ owed = 0 /\ sinceSignal = DebounceTicks /\ lastWait = DebounceTicks
  /\ cycles = 0
  /\ debugFill = TRUE /\ fillVis = "absent"
  /\ sigView = NoView /\ styleRead = << >>

NoPlan == [phase |-> "idle", outcome |-> [id \in SourceIds |-> "fail"], cache0 |-> NoCache]

\* the builds: the current source file and its older variant
Builds == {"prefetch.js", "part_000"}

NoCycle == [phase |-> "idle", v |-> NoView]

TilesInit ==
  /\ tin = NoQuery /\ tout = NoAnswer /\ plan = NoPlan /\ build = "prefetch.js"
  /\ cyc = NoCycle

Init == SchedInit /\ TilesInit

Here == Styles[style]

\* this.opts as the build's _resolveTemplates reads it: src/prefetch.js never
\* reads opts.sourceIds, src/unnamed/part_000 filters the sources by it.
OptsRead == IF build = "part_000" THEN opts ELSE [opts EXCEPT !.sourceIds = {}]
Now == Viewports[view]

\* the map's load event: () => this._bind()
Load ==
  /\ loadListener /\ Len(runs) < MaxRuns
  /\ loadListener' = FALSE
  /\ Becomes(Bind(Cur, Here, Now, OptsRead))
  /\ UNCHANGED <<style, view, opts, moves, styleEvents, destroyed, tvars>>

\* the viewport settles at v: the map's moveend event
MoveEnd ==
  \E v \in 1..Len(Viewports) :
    /\ moves < MaxMoves
    /\ moves' = moves + 1
    /\ view' = v
    /\ Becomes(IF moveendOn THEN [OnMoveEnd(Cur) EXCEPT !.sigView = Viewports[v]] ELSE Cur)
    /\ UNCHANGED <<style, opts, styleEvents, loadListener, destroyed, tvars>>

\* the map moves on from where the last signal found it (a drag, a zoom
\* animation) while a cycle is to come: the viewport changes and no moveend
\* has been sent yet
Move ==
  \E v \in 1..Len(Viewports) :
    /\ sigView = Now /\ v # view
    /\ timers # {} \/ \E k \in 1..Len(runs) : runs[k].then = "cycle"
    /\ view' = v
    /\ UNCHANGED <<style, opts, moves, styleEvents, loadListener, destroyed, moveendOn,
                   styledataOn, bound, styledataGuard, rafPending, debounceTimer, timers,
                   inflight, outstanding, tilejsonCache, templates, runs, overlay, lookups,
                   burst, owed, sinceSignal, lastWait, cycles, debugFill, fillVis, sigView,
                   styleRead, tvars>>

\* the style becomes s (a source added, removed or replaced, or any other
\* style change): the map's styledata event
StyleData ==
  \E s \in StylesAfter(style) :
    /\ Len(runs) < MaxRuns /\ styleEvents < MaxStyleEvents
    /\ styleEvents' = styleEvents + 1
    /\ style' = s
    /\ Becomes(IF styledataOn THEN OnStyleData(Cur, Styles[s], Now, OptsRead) ELSE Cur)
    /\ UNCHANGED <<view, opts, moves, loadListener, destroyed, tvars>>

\* the next animation frame: () => { this._styledataGuard = false; }
AnimationFrame ==
  /\ rafPending
  /\ styledataGuard' = FALSE /\ rafPending' = FALSE
  /\ UNCHANGED <<style, view, opts, moves, styleEvents, loadListener, destroyed, moveendOn, styledataOn,
                 bound, debounceTimer, timers, inflight, outstanding, tilejsonCache,
                 templates, runs, overlay, lookups, burst, owed, sinceSignal,
                 lastWait, cycles, debugFill, fillVis, sigView, styleRead, tvars>>

\* one clock tick passes; a due timer runs before the clock goes on
Tick ==
  /\ \A t \in timers : t.left > 0
  /\ timers # {} \/ sinceSignal < DebounceTicks
  /\ timers' = {[t EXCEPT !.left = @ - 1] : t \in timers}
  /\ sinceSignal' = Min(sinceSignal + 1, DebounceTicks)
  /\ UNCHANGED <<style, view, opts, moves, styleEvents, loadListener, destroyed, moveendOn, styledataOn,
                 bound, styledataGuard, rafPending, debounceTimer, inflight,
                 outstanding, tilejsonCache, templates, runs, overlay,
                 lookups, burst, owed, lastWait, cycles, debugFill, fillVis, sigView,
                 styleRead, tvars>>

\* a due debounce timer fires
TimerFire ==
  \E t \in timers :
    /\ t.left = 0 /\ Len(runs) < MaxRuns
    /\ Becomes(FireTimer(Cur, t, Here, Now, OptsRead))
    /\ UNCHANGED <<style, view, opts, moves, styleEvents, loadListener, destroyed, tvars>>

\* the remote lookup of a suspended run settles
LookupSettle ==
  \E k \in 1..Len(runs), outcome \in LookupOutcomes :
    /\ Becomes(SettleLookup(Cur, k, outcome, Now, OptsRead))
    /\ UNCHANGED <<style, view, opts, moves, styleEvents, loadListener, destroyed, tvars>>

\* an outstanding tile fetch settles (resolved or rejected alike)
FetchSettle ==
  \E u \in BagToSet(outstanding) :
    /\ Becomes(SettleFetch(Cur, u))
    /\ UNCHANGED <<style, view, opts, moves, styleEvents, loadListener, destroyed, tvars>>

\* the caller calls destroy()
DestroyCall ==
  /\ destroyed' = TRUE
  /\ Becomes(Destroy(Cur))
  /\ UNCHANGED <<style, view, opts, moves, styleEvents, loadListener, tvars>>

\* the caller calls setFillEnabled(enabled)
SetFillEnabledCall ==
  \E enabled \in BOOLEAN :
    /\ Becomes(SetFillEnabled(Cur, enabled))
    /\ UNCHANGED <<style, view, opts, moves, styleEvents, loadListener, destroyed, tvars>>

Next ==
  \/ Load \/ MoveEnd \/ StyleData \/ AnimationFrame \/ Tick \/ TimerFire
  \/ LookupSettle \/ FetchSettle \/ DestroyCall \/ SetFillEnabledCall \/ Move

Spec == Init /\ [][Next]_vars

\* Every tile fetch settles in the end: the network answers or fails.
SpecLive == Spec /\ WF_vars(FetchSettle)

\* ------------------------------------------------- the tile-set builder
\* Raw index rectangles of a viewport at zoom z: they may start left of
\* column 0 / above row 0 and end right of column 2^z-1 / below row 2^z-1.
\* The template lists handed over with them: well-formed templates and
\* templates that lack a placeholder, in several positions.
TemplateLists == {<<TA>>, <<TNoY, TA>>, <<TA, TNoZ, TB>>, <<TNoY>>}

Queries ==
  {[z |-> z, minX |-> x0, maxX |-> x0 + w, minY |-> y0, maxY |-> y0 + h, n |-> n,
    levels |-> l, tmpls |-> ts] :
     z \in 0..MaxZ, x0 \in -1..1, w \in 0..MaxSpan, y0 \in -1..1, h \in 0..MaxSpan,
     n \in 0..MaxRing, l \in 0..MaxLevels, ts \in TemplateLists}

\* the single tile 5/10/10 with two parent levels
ScenarioQueries ==
  {[z |-> 5, minX |-> 10, maxX |-> 10, minY |-> 10, maxY |-> 10, n |-> 1,
    levels |-> 2, tmpls |-> <<TA>>]}

\* a viewport and a ring count are handed to the tile-set builder
TilesPick ==
  /\ tin = NoQuery
  /\ \E q \in Queries \cup ScenarioQueries : tin' = q
  /\ tout' = NoAnswer
  /\ UNCHANGED <<svars, plan, build, cyc>>

\* the builder runs: the ring for n, the ring for n+1, the visible tiles,
\* their parents and the URL set
TilesApply ==
  /\ ~tout.done
  /\ LET ring == NeighborTiles(tin.z, tin.minX, tin.minY, tin.maxX, tin.maxY, tin.n)
         tiles == TilesAtZ(tin.z, tin.minX, tin.maxX, tin.minY, tin.maxY)
         parents == ParentTiles(tiles, tin.z, tin.levels)
     IN  tout' = [done |-> TRUE,
                  ring |-> ring,
                  ringNext |-> NeighborTiles(tin.z, tin.minX, tin.minY, tin.maxX, tin.maxY,
                                             tin.n + 1),
                  tilesAtZ |-> tiles,
                  parents |-> parents,
                  urls |-> CycleURLs(Keyed(ring, tin.z), parents, tin.tmpls)]
  /\ UNCHANGED <<tin, plan, build, cyc, svars>>

TilesNext == TilesPick \/ TilesApply

InitTiles == SchedInit /\ style = 1 /\ opts.maxRequestsPerMove = 0 /\ TilesInit

SpecTiles == InitTiles /\ [][TilesNext]_vars

\* ------------------------------------------- one template resolution
\* A bound prefetcher of either build, a style, a sourceIds option, a
\* TileJSON cache and the way each source's lookup will settle are drawn;
\* _resolveTemplates is called and followed through its lookups to its end.
SourceIdSets == {{}, {"s2"}, {"s1", "s3"}}

Caches ==
  {[id \in SourceIds |-> IF id = "s1" THEN c1 ELSE IF id = "s3" THEN c3
                         ELSE [set |-> FALSE, tiles |-> << >>]] :
     c1 \in {[set |-> FALSE, tiles |-> << >>], [set |-> TRUE, tiles |-> <<TB>>]},
     c3 \in {[set |-> FALSE, tiles |-> << >>], [set |-> TRUE, tiles |-> << >>]}}

ResolvePick ==
  /\ plan.phase \in {"idle", "done"}
  /\ \E s \in 1..Len(Styles), c \in Caches, f \in [SourceIds -> LookupOutcomes],
        b \in Builds, w \in SourceIdSets :
       /\ f["s2"] = "fail"
       /\ style' = s
       /\ build' = b
       /\ opts' = [opts EXCEPT !.sourceIds = w]
       /\ tilejsonCache' = c
       /\ plan' = [phase |-> "picked", outcome |-> f, cache0 |-> c]
  /\ templates' = << >> /\ runs' = << >>
  /\ lookups' = [id \in SourceIds |-> 0]
  /\ UNCHANGED <<view, moves, styleEvents, loadListener, destroyed, moveendOn,
                 styledataOn, bound, styledataGuard, rafPending, debounceTimer, timers,
                 inflight, outstanding, overlay, burst, owed, sinceSignal, lastWait,
                 cycles, debugFill, fillVis, sigView, styleRead, tin, tout, cyc>>

ResolveCall ==
  /\ plan.phase = "picked"
  /\ Becomes(ResolveTemplates(Cur, Here, "none", Now, OptsRead))
  /\ plan' = [plan EXCEPT !.phase = IF Len(runs') = 0 THEN "done" ELSE "running"]
  /\ UNCHANGED <<style, view, opts, moves, styleEvents, loadListener, destroyed, tin, tout,
                 build, cyc>>

ResolveSettle ==
  /\ plan.phase = "running"
  /\ LET r == runs[1]
     IN  Becomes(SettleLookup(Cur, 1, plan.outcome[r.srcs[r.pos].id], Now, OptsRead))
  /\ plan' = [plan EXCEPT !.phase = IF Len(runs') = 0 THEN "done" ELSE "running"]
  /\ UNCHANGED <<style, view, opts, moves, styleEvents, loadListener, destroyed, tin, tout,
                 build, cyc>>

ResolveNext == ResolvePick \/ ResolveCall \/ ResolveSettle

InitResolve == SchedInit /\ style = 1 /\ opts.maxRequestsPerMove = 0 /\ TilesInit

SpecResolve == InitResolve /\ [][ResolveNext]_vars

\* ------------------------------------------------ one cycle on a viewport
\* Viewports at the edges of what the map can report: a zoom below 0 and
\* above 22, the whole world, bounds that cross the antimeridian or reach
\* beyond it (longitudes outside -180..180), bounds above the northern and at
\* the southern edge of the projection. At the highest zooms a viewport is
\* narrower than the resolution the bounds are drawn in: its edges coincide.
CycleViewports ==
  { Viewport(-3, -180, -90, 0, 3),      \* zoom -1.5
    Viewport(0, -180, 180, 0, MercUnits),
    Viewport(2, -180, -90, 0, 3),
    Viewport(2, 170, 190, 3, 4),
    Viewport(5, 0, 90, 2, 3),
    Viewport(7, -200, -170, -1, 1),
    Viewport(2 * MaxTileZoom, 180, 180, MercUnits, MercUnits),
    Viewport(2 * MaxTileZoom + 1, -180, -180, 0, 0),
    Viewport(2 * MaxTileZoom + 3, 0, 0, 4, 4) }   \* zoom 23.5

\* opts.zoomOutLevels drawn for the cycle: up to more levels than any zoom has
CycleLevels == (0..MaxLevels) \cup {MaxTileZoom + 1}

\* opts.maxRequestsPerMove drawn for the cycle
CycleCaps == 0..(MaxCap + 1)

\* The template lists a resolution has left: the second one starts with a
\* template whose URLs opts.shouldPrefetch rejects.
CycleTemplateLists == {<<TA>>, <<TJson, TA, TB>>}

\* a prefetcher with templates, options and a viewport
CyclePick ==
  /\ cyc.phase = "idle"
  /\ \E v \in CycleViewports, n \in 0..MaxRing, l \in CycleLevels, m \in CycleCaps,
        ts \in CycleTemplateLists :
       /\ opts' = [opts EXCEPT !.neighbors = n, !.zoomOutLevels = l,
                               !.maxRequestsPerMove = m]
       /\ cyc' = [phase |-> "picked", v |-> v]
       /\ Becomes([Cur EXCEPT !.templates = ts])
  /\ UNCHANGED <<style, view, moves, styleEvents, loadListener, destroyed, tin, tout,
                 plan, build>>

\* _prefetchNow() runs with the map at the drawn viewport: a first cycle, and
\* a second one while fetches of the first may be outstanding
CycleRun ==
  /\ cyc.phase \in {"picked", "done", "moved"}
  /\ Becomes(PrefetchNow(Cur, Here, cyc.v, OptsRead))
  /\ cyc' = [cyc EXCEPT !.phase = IF @ = "picked" THEN "done" ELSE "again"]
  /\ UNCHANGED <<style, view, opts, moves, styleEvents, loadListener, destroyed, tin, tout,
                 plan, build>>

\* between the two cycles the map pans to another viewport of the same zoom
CycleMove ==
  /\ cyc.phase = "done"
  /\ \E v \in CycleViewports :
       /\ v # cyc.v /\ CycleZoom(v.zoom2) = CycleZoom(cyc.v.zoom2)
       /\ cyc' = [phase |-> "moved", v |-> v]
  /\ UNCHANGED <<svars, tin, tout, plan, build>>

\* between the two cycles a fetch of the first settles
CycleSettle ==
  /\ cyc.phase \in {"done", "moved"}
  /\ \E u \in BagToSet(outstanding) : Becomes(SettleFetch(Cur, u))
  /\ UNCHANGED <<style, view, opts, moves, styleEvents, loadListener, destroyed, tvars>>

CycleNext == CyclePick \/ CycleRun \/ CycleMove \/ CycleSettle

InitCycle == SchedInit /\ style = 1 /\ opts.maxRequestsPerMove = MaxCap /\ TilesInit

SpecCycle == InitCycle /\ [][CycleNext]_vars

\* ================================================================ claims

\* C1: while destroy() has not been called, no URL has two tile fetches
\* outstanding at once, and a URL is in the in-flight set exactly while its
\* fetch is outstanding.
C1_NoDuplicateFetch ==
  ~destroyed =>
    /\ \A u \in BagToSet(outstanding) : CopiesIn(u, outstanding) = 1
    /\ inflight = BagToSet(outstanding)

\* A cycle is suspended in its own template resolution while fetches of
\* another cycle are outstanding.
C1_Witness ==
  /\ ~destroyed
  /\ inflight # {}
  /\ \E k \in 1..Len(runs) : runs[k].then = "cycle"

\* C2: no cycle issues more than maxRequestsPerMove tile fetches: a step, which
\* holds at most one cycle, adds at most that many outstanding fetches.
C2_CapPerCycle ==
  [][BagCardinality(outstanding') - BagCardinality(outstanding) <= opts.maxRequestsPerMove]_vars

\* A cycle with more candidate URLs than the cap has issued exactly the cap.
C2_Witness ==
  /\ ~destroyed
  /\ opts.maxRequestsPerMove = MaxCap
  /\ MaxCap >= 1
  /\ Len(overlay.neighbors) * Len(templates) > opts.maxRequestsPerMove
  /\ BagCardinality(outstanding) = opts.maxRequestsPerMove

\* C3: a burst of signals that each find the previous one's timer pending gets
\* exactly one cycle: at most one timer is pending, it is the one
\* _debounceTimer names, the bursts begun exceed the cycles started exactly by
\* the pending timer, and a cycle starts DebounceTicks after the last signal.
C3_Debounce ==
  /\ Cardinality(timers) <= 1
  /\ \A t \in timers : t.id = debounceTimer /\ t.left = DebounceTicks - sinceSignal
  /\ owed = Cardinality(timers)
  /\ lastWait = DebounceTicks

\* A burst of at least two signals has been answered by its one cycle.
C3_Witness ==
  /\ burst >= 2
  /\ timers = {}
  /\ owed = 0
  /\ overlay.neighbors # << >>

\* C4: once destroy() has been called the prefetcher has no moveend and no
\* styledata handler attached, whether it was called before or after _bind.
C4_DetachedAfterDestroy == destroyed => ~moveendOn /\ ~styledataOn

\* C5: between two clearings of the TileJSON cache at most one remote lookup
\* is issued per source identifier.
C5_OneLookupPerSource == \A id \in SourceIds : lookups[id] <= 1

Awaited == {runs[k].srcs[runs[k].pos].id : k \in 1..Len(runs)}

\* C6: a source whose lookup has settled, failed or not, has an entry in the
\* TileJSON cache (so that no later run looks it up again).
C6_SettledLookupIsCached ==
  \A id \in SourceIds :
    lookups[id] >= 1 /\ id \notin Awaited => tilejsonCache[id].set

\* What the sources of a style contribute to one run that starts with cache
\* plan.cache0 and whose lookups settle as plan.outcome says.
Contribution(src) ==
  IF OptsRead.sourceIds # {} /\ src.id \notin OptsRead.sourceIds THEN << >>
  ELSE IF Len(src.tiles) > 0 THEN SelectSeq(src.tiles, LAMBDA u : u.str)
  ELSE IF src.url = "" THEN << >>
  ELSE IF plan.cache0[src.id].set THEN plan.cache0[src.id].tiles
  ELSE IF plan.outcome[src.id] = "tiles" THEN RemoteTiles(src.url)
  ELSE << >>

\* C7: a run ends whatever its lookups do, and the template list it writes is
\* the string templates of every source, in order, with nothing from a source
\* whose lookup failed.
C7_FailureIsLocal ==
  plan.phase = "done" => templates = Flatten(MapSeq(Here, Contribution))

\* The first source's lookup failed and the run went on to the explicit tiles
\* of the second and the successful lookup of the third.
C7_Witness ==
  /\ plan.phase = "done"
  /\ style = 4
  /\ ~plan.cache0["s3"].set /\ plan.outcome["s3"] = "fail"
  /\ ~plan.cache0["s1"].set /\ plan.outcome["s1"] = "tiles"
  /\ templates = <<TA, TB>>

\* the string templates the sources of style s can give
StyleTemplates(s) ==
  UNION {IF Len(Styles[s][i].tiles) > 0
           THEN {u \in Range(Styles[s][i].tiles) : u.str}
           ELSE Range(RemoteTiles(Styles[s][i].url)) : i \in 1..Len(Styles[s])}

\* C8: a resolution that a styledata signal starts and that ends at once (no
\* lookup) leaves only templates of the new style in the template list: none
\* cached for a descriptor URL that the style has replaced.
C8_NoStaleTemplates ==
  [][(styleEvents' = styleEvents + 1 /\ styledataOn /\ ~styledataGuard /\ runs' = runs)
       => Range(templates') \subseteq StyleTemplates(style')]_vars

\* C9: no normalized neighbor tile is a tile of the visible range.
C9_NeighborsOutsideVisible ==
  tout.done =>
    Range(tout.ring) \cap {[x |-> p.x, y |-> p.y] : p \in Range(tout.tilesAtZ)} = {}

\* C10: the neighbor set for ring count n is a subset of the one for n+1, and
\* it is empty for n = 0.
C10_RingMonotone ==
  tout.done =>
    /\ Range(tout.ring) \subseteq Range(tout.ringNext)
    /\ tin.n = 0 => tout.ring = << >>

\* A ring that wraps and clamps at the edge of the world and grows with n.
C10_Witness ==
  /\ tout.done
  /\ tin.n >= 1 /\ tin.z >= 2
  /\ tin.minX < 0 /\ tin.minY = 0
  /\ Range(tout.ring) # Range(tout.ringNext)

\* C11: every tile _visibleTileRange puts into tilesAtZ has 0 <= x <= 2^z-1
\* and 0 <= y <= 2^z-1, whatever the raw index range; at z = 1 the raw index
\* (-1,-1) becomes the tile (1,0).
C11_VisibleTilesNormalized ==
  tout.done =>
    /\ \A p \in Range(tout.tilesAtZ) :
         p.z = tin.z /\ p.x \in 0..(2^tin.z - 1) /\ p.y \in 0..(2^tin.z - 1)
    /\ (tin.z = 1 /\ tin.minX = -1 /\ tin.minY = -1)
         => tout.tilesAtZ[1] = [x |-> 1, y |-> 0, z |-> 1]

\* A range that starts left of column 0 and above row 0 and ends right of the
\* last column has been normalized.
C11_Witness ==
  /\ tout.done
  /\ tin.z = 1 /\ tin.minX = -1 /\ tin.minY = -1
  /\ [x |-> 1, y |-> 0, z |-> 1] \in Range(tout.tilesAtZ)
  /\ \E q \in Queries : q.z = 0 /\ q.maxX >= 2

\* C12: the parent set holds tiles of exactly the zooms z-1 .. z-min(N,z), in
\* the order of increasing depth: none of a negative zoom, and none at all
\* when N = 0 or z = 0.
C12_ParentDepths ==
  tout.done =>
    /\ {p.z : p \in Range(tout.parents)} = (tin.z - Min(tin.levels, tin.z))..(tin.z - 1)
    /\ \A i, j \in 1..Len(tout.parents) : i <= j => tout.parents[i].z >= tout.parents[j].z
    /\ (tin.levels = 0 \/ tin.z = 0) => tout.parents = << >>

\* The depth loop has stopped at its first invalid depth, below the
\* configured one.
C12_Witness ==
  /\ tout.done
  /\ tin.z = 1 /\ tin.levels = 2
  /\ tout.parents = <<[z |-> 0, x |-> 0, y |-> 0]>>

\* C20: a template that lacks a placeholder contributes no URL, and the URLs
\* of the other templates are those of the template list without it.
C20_MalformedTemplateSkipped ==
  tout.done =>
    LET wellFormed(t) == t.z /\ t.x /\ t.y
        bad == {t.id : t \in {u \in Range(tin.tmpls) : ~wellFormed(u)}}
    IN  /\ \A u \in Range(tout.urls) : u.t \notin bad
        /\ tout.urls = CycleURLs(Keyed(tout.ring, tin.z), tout.parents,
                                 SelectSeq(tin.tmpls, wellFormed))

\* URLs have been expanded from a list with a malformed template between two
\* well-formed ones.
C20_Witness ==
  /\ tout.done
  /\ tin.tmpls = <<TA, TNoZ, TB>>
  /\ \E u, w \in Range(tout.urls) : u.t = "a" /\ w.t = "b"

\* C13: a cycle run again at once, with the same viewport, templates and
\* options and no fetch settled, shows the same tile sets and issues no fetch.
C13_SecondCycleIssuesNothing ==
  Len(templates) > 0 =>
    LET S1 == PrefetchBody(Cur, Now, opts)
        S2 == PrefetchBody(S1, Now, opts)
    IN  /\ S2.outstanding = S1.outstanding
        /\ S2.inflight = S1.inflight
        /\ S2.overlay = S1.overlay

\* A cycle has just issued as many fetches as its cap allows, fewer than its
\* URL list holds, and none has settled.
C13_Witness ==
  /\ ~destroyed /\ Len(templates) > 0
  /\ opts.maxRequestsPerMove >= 1
  /\ Cardinality(inflight) = opts.maxRequestsPerMove
  /\ inflight = BagToSet(outstanding)
  /\ PrefetchBody(Cur, Now, opts) = Cur

\* C14: the URL of a fetch that settles is not in the in-flight set
\* afterwards, and an in-flight set that is not empty becomes empty.
C14_SettledFetchLeaves ==
  /\ [][\A u \in BagToSet(outstanding) :
          CopiesIn(u, outstanding') < CopiesIn(u, outstanding) => u \notin inflight']_vars
  /\ (inflight # {}) ~> (inflight = {})

\* The fetches a cycle issued have all settled.
C14_Witness ==
  /\ ~destroyed /\ Len(templates) > 0
  /\ opts.maxRequestsPerMove >= 1
  /\ overlay.neighbors # << >>
  /\ inflight = {} /\ outstanding = EmptyBag

\* C15: a styledata signal sets no timer and starts no cycle and no fetch;
\* the debounce timer is set only at a moveend signal and at the end of the
\* initial bind's resolution; the cycles started are at most the moveend
\* signals plus one.
C15_StyleDataStartsNoCycle ==
  /\ [](cycles <= moves + 1)
  /\ [][/\ styleEvents' # styleEvents =>
             /\ timers' = timers /\ debounceTimer' = debounceTimer
             /\ cycles' = cycles /\ outstanding' = outstanding
        /\ debounceTimer' # debounceTimer =>
             \/ moves' # moves
             \/ loadListener' # loadListener
             \/ /\ \E k \in 1..Len(runs) : runs[k].then = "bind"
                /\ \A k \in 1..Len(runs') : runs'[k].then # "bind"]_vars

\* After as many cycles as the moveend signals allow, a styledata signal has
\* started a resolution, which waits for a lookup.
C15_Witness ==
  /\ styleEvents >= 1 /\ moves >= 1
  /\ cycles = moves + 1
  /\ \E k \in 1..Len(runs) : runs[k].then = "none"

\* C16: with a non-empty opts.sourceIds a run writes the templates of the
\* sources in that set only and looks up no source outside it.
C16_OnlyWantedSources ==
  (plan.phase = "done" /\ opts.sourceIds # {}) =>
    /\ templates = Flatten(MapSeq(SelectSeq(Here, LAMBDA src : src.id \in opts.sourceIds),
                                  Contribution))
    /\ \A id \in SourceIds \ opts.sourceIds : lookups[id] = 0

C18_CycleUsesSignalViewport ==
  [][/\ (cycles' = cycles + 1 /\ Len(templates) > 0)
          => overlay' = OverlayFor(sigView, opts)
     /\ \A k \in 1..Len(runs) :
          (/\ runs[k].then = "cycle"
           /\ runs' = SubSeq(runs, 1, k - 1) \o SubSeq(runs, k + 1, Len(runs))
           /\ Len(templates') > 0)
          => overlay' = OverlayFor(runs[k].sig, opts)]_vars

\* C19: a cycle that finds templates performs no resolution; a cycle that
\* finds none performs one resolution (which ends at once or waits for a
\* lookup), and when that resolution leaves the list empty the cycle ends
\* with the fetches, the in-flight set and the shown tile sets as they were.
C19_EmptyListEndsCycle ==
  [][/\ (cycles' = cycles + 1 /\ Len(templates) > 0)
          => runs' = runs /\ lookups' = lookups /\ templates' = templates
     /\ (cycles' = cycles + 1 /\ Len(templates) = 0)
          => /\ \/ runs' = runs
                \/ /\ Len(runs') = Len(runs) + 1
                   /\ SubSeq(runs', 1, Len(runs)) = runs
                   /\ runs'[Len(runs')].then = "cycle"
                   /\ templates' = templates
             /\ Len(templates') = 0
                  => outstanding' = outstanding /\ inflight' = inflight /\ overlay' = overlay
     /\ \A k \in 1..Len(runs) :
          (/\ runs[k].then = "cycle"
           /\ runs' = SubSeq(runs, 1, k - 1) \o SubSeq(runs, k + 1, Len(runs))
           /\ Len(templates') = 0)
          => outstanding' = outstanding /\ inflight' = inflight /\ overlay' = overlay]_vars

\* A cycle found no templates, waited for the one lookup of its resolution,
\* which failed, and ended without a fetch and without tile sets.
C19_Witness ==
  /\ ~destroyed /\ style = 6
  /\ cycles >= 1 /\ timers = {} /\ runs = << >>
  /\ Len(templates) = 0 /\ lookups["s1"] >= 2
  /\ overlay.neighbors = << >> /\ outstanding = EmptyBag

\* C21: for every tile of tilesAtZ and every depth d in 1..z, d successive
\* floor-halvings of x and of y give floor(x / 2^d) and floor(y / 2^d); the
\* parent set holds exactly these ancestors, at zoom z-d, for the depths the
\* loop runs; the tile 5/10/10 has the ancestors 4/5/5 and 3/2/2.
C21_HalvingIsFloorDivision ==
  tout.done =>
    /\ \A p \in Range(tout.tilesAtZ) : \A d \in 1..tin.z :
         /\ Halve(p.x, d) = FloorDiv(p.x, 2^d)
         /\ Halve(p.y, d) = FloorDiv(p.y, 2^d)
    /\ Range(tout.parents) =
         {[z |-> tin.z - d, x |-> FloorDiv(p.x, 2^d), y |-> FloorDiv(p.y, 2^d)] :
            p \in Range(tout.tilesAtZ), d \in 1..Min(tin.levels, tin.z)}
    /\ tin \in ScenarioQueries
         => tout.parents = <<[z |-> 4, x |-> 5, y |-> 5], [z |-> 3, x |-> 2, y |-> 2]>>

\* The ancestors of the tile 5/10/10 at depths 1 and 2 have been computed,
\* and odd indices are halved at zoom 3.
C21_Witness ==
  /\ tout.done
  /\ tin \in ScenarioQueries
  /\ [z |-> 3, x |-> 2, y |-> 2] \in Range(tout.parents)
  /\ \E q \in Queries : q.z = 3 /\ q.minX = 1 /\ q.maxX = 2 /\ q.levels = 2

\* C22: no style change stays unresolved: while the styledata handler is
\* attached, the style the last _resolveTemplates call read is the map's
\* current style, also after a signal that found the guard set.
C22_StyleChangeResolved == styledataOn => styleRead = Here

\* C23: once destroy() has returned, the in-flight set, the TileJSON cache
\* and the template list are and stay empty, and no step issues a tile fetch
\* or a TileJSON lookup.
C23_QuietAfterDestroy ==
  /\ [](destroyed => inflight = {} /\ tilejsonCache = NoCache /\ templates = << >>)
  /\ [][destroyed =>
          /\ \A u \in BagToSet(outstanding') :
               CopiesIn(u, outstanding') <= CopiesIn(u, outstanding)
          /\ \A id \in SourceIds : lookups'[id] <= lookups[id]]_vars

\* C24: when the last of several overlapping _resolveTemplates runs ends, the
\* template list it leaves is that of the style read most recently: the run
\* that ends last and writes the list is one that read that style.
C24_LastWriterReadLatestStyle ==
  [][(Len(runs) = 1 /\ runs' = << >>) => runs[1].srcs = styleRead']_vars

\* C25: every key a cycle puts into the neighbor set or the parent set is a
\* valid tile index (0 <= z <= 22, 0 <= x, y <= 2^z - 1), whatever the map's
\* zoom and viewport; neighbor keys have the cycle's zoom, parent keys a
\* strictly smaller one.
C25_KeysAreValidTiles ==
  cyc.phase \in {"done", "again"} =>
    LET z == CycleZoom(cyc.v.zoom2)
        valid(k) == /\ k.z \in 0..MaxTileZoom
                    /\ k.x \in 0..(2^k.z - 1) /\ k.y \in 0..(2^k.z - 1)
    IN  /\ z \in 0..MaxTileZoom
        /\ \A k \in Range(overlay.neighbors) : valid(k) /\ k.z = z
        /\ \A k \in Range(overlay.parents) : valid(k) /\ k.z < z

\* A cycle has run with the map zoomed beyond 22 and built neighbors at zoom
\* 22 and parents down to zoom 0.
C25_Witness ==
  /\ cyc.phase \in {"done", "again"}
  /\ cyc.v.zoom2 > 2 * MaxTileZoom + 1
  /\ \E k \in Range(overlay.neighbors) : k.z = MaxTileZoom
  /\ \E k \in Range(overlay.parents) : k.z = 0

\* the candidate list of the cycle that has shown the tile sets ov: the URLs
\* of the neighbor keys and then of the parent keys that pass shouldPrefetch
Candidates(ov) ==
  SelectSeq(CycleURLs(ov.neighbors, ov.parents, templates), ShouldPrefetch)

\* C26: a cycle fetches no candidate URL that stands behind the first
\* maxRequestsPerMove of the filtered list, also when URLs before it are in
\* flight and skipped; it issues at most maxRequestsPerMove fetches minus
\* the number of those first candidates that are in flight.
C26_CapBeforeInflightCheck ==
  [][(cyc'.phase \in {"done", "again"} /\ cyc'.phase # cyc.phase) =>
       \A list \in {Candidates(overlay')} :
         LET cap == opts.maxRequestsPerMove
             first == 1..Min(cap, Len(list))
         IN  /\ \A i \in 1..Len(list) :
                  i > cap => CopiesIn(list[i], outstanding') = CopiesIn(list[i], outstanding)
             /\ BagCardinality(outstanding') - BagCardinality(outstanding)
                  <= cap - Cardinality({j \in first : list[j] \in inflight})]_vars

\* A second cycle has found the first two candidates in flight and left the
\* third, which is not in flight, unfetched; URLs rejected by shouldPrefetch
\* stand before them in the URL set.
C26_Witness ==
  /\ cyc.phase = "again"
  /\ opts.maxRequestsPerMove = 2
  /\ templates = <<TJson, TA, TB>>
  /\ BagCardinality(outstanding) = 2
  /\ \E list \in {Candidates(overlay)} :
       /\ Len(list) >= 3
       /\ list[1] \in inflight /\ list[2] \in inflight /\ list[3] \notin inflight
====
